---- MODULE Spec2Model ----
(***************************************************************************)
(* Model of alpaca's adaptive authentication chain.                        *)
(*                                                                         *)
(*   main (main.go)               builds the chain Negotiate, Basic, NTLM  *)
(*   newMultiAuthenticator        filters nil entries, picks nil / the     *)
(*                                single method / a multiAuthenticator     *)
(*   multiAuthenticator.do        cache lookup under RLock, chain loop,    *)
(*                                cache store under Lock                   *)
(*                                                                         *)
(* Each caller is a goroutine serving one inbound request at a time; it    *)
(* calls auth.do for an upstream host.  A method invocation (method.do) is *)
(* a blocking call into the upstream proxy whose outcome the program does  *)
(* not control: an error, a 407, or a response with another status.        *)
(***************************************************************************)
EXTENDS Integers, Sequences, FiniteSets, TLC

\* ---- bounds -------------------------------------------------------------
NumCallers == 2      \* concurrent goroutines calling auth.do
MaxCalls   == 2      \* do calls started in one run (all callers together)
MaxArgs    == 3      \* arguments passed to one newMultiAuthenticator call
MaxWait    == 3      \* largest value of the -w flag (seconds to wait for a ticket)

\* ---- program constants --------------------------------------------------
StatusProxyAuthRequired == 407
StatusOK                == 200
SleepSeconds            == 2           \* time.Sleep(2 * time.Second)

Callers  == 1..NumCallers
NoHost   == ""                         \* no proxy in the request context
Hosts    == {NoHost, "up1", "up2"}     \* value of proxy.Hostname()
Statuses == {StatusOK, 403, StatusProxyAuthRequired}   \* 403: some other status

Negotiate == "Negotiate"
Basic     == "Basic"
NTLM      == "NTLM"
NilMethod == "nil"                     \* the nil proxyAuthenticator
NilResp   == [StatusCode |-> 0, Body |-> "nil"]
NilErr    == "nil"
ErrTransport == "transport error"      \* an error returned by a method
ErrNoMethods == "no authentication methods configured"

VARIABLES
    config,     \* main: which authenticators are non-nil after startup
    auth,       \* main: the value returned by newMultiAuthenticator
    methods,    \* multiAuthenticator.methods
    cache,      \* multiAuthenticator.cache  (a map: function on its keys)
    mu,         \* multiAuthenticator.mu     (sync.RWMutex)
    call,       \* per caller: position in do and its locals
    ncalls,     \* number of do calls started (bounded by MaxCalls)
    finished,   \* history: <<host, outcome>> of the do calls that have returned
    boot,       \* main / newNegotiateAuthenticator: startup position and locals
    nm,         \* a call of newMultiAuthenticator: its arguments and its result
    negdo,      \* a call of negotiateAuthenticator.do
    logger      \* a request going through the handler built by createServer

vars == <<config, auth, methods, cache, mu, call, ncalls, finished, boot, nm, negdo, logger>>

\* State outside the multi-authenticator.
others == <<boot, nm, negdo, logger>>

\* ---- values ---------------------------------------------------------------
Range(s) == {s[k] : k \in DOMAIN s}

\* What a method invocation can hand back: (nil, err) or (resp, nil).  A body
\* records what its holder has done with it: read it to EOF, closed it.
MethodResults ==
    {[resp |-> NilResp, err |-> ErrTransport]} \cup
    {[resp |-> [StatusCode |-> s, Body |-> [read |-> FALSE, closed |-> FALSE]],
      err |-> NilErr] : s \in Statuses}

\* io.Closer.Close on a response body: marks it closed, reads nothing.
BodyCloseForgotten(resp) == resp

BodyClose(resp) == [resp EXCEPT !.Body.closed = TRUE]

\* ---- main: the chain ----------------------------------------------------
\* methods = append(neg?) ; append(basicAuth?) ; append(a?)
MainMethodsBasicFirst(cfg) ==
    (IF cfg.basicAuth THEN <<Basic>> ELSE <<>>) \o
    (IF cfg.neg THEN <<Negotiate>> ELSE <<>>) \o
    (IF cfg.a THEN <<NTLM>> ELSE <<>>)

MainMethods(cfg) ==
    (IF cfg.neg THEN <<Negotiate>> ELSE <<>>) \o
    (IF cfg.basicAuth THEN <<Basic>> ELSE <<>>) \o
    (IF cfg.a THEN <<NTLM>> ELSE <<>>)

\* for _, m := range methods { if m != nil { filtered = append(filtered, m) } }
FilterKeepsNil(ms) == ms

RECURSIVE Filter(_)
Filter(ms) ==
    IF ms = <<>> THEN <<>>
    ELSE IF Head(ms) # NilMethod THEN <<Head(ms)>> \o Filter(Tail(ms))
    ELSE Filter(Tail(ms))

EmptyCache == [h \in {} |-> NilMethod]

newMultiAuthenticatorAlwaysWraps(ms) ==
    LET filtered == Filter(ms) IN
    IF Len(filtered) = 0
      THEN [kind |-> "nil", single |-> NilMethod, methods |-> <<>>, cache |-> EmptyCache]
      ELSE [kind |-> "multi", single |-> NilMethod, methods |-> filtered, cache |-> EmptyCache]

newMultiAuthenticator(ms) ==
    LET filtered == Filter(ms) IN
    CASE Len(filtered) = 0 ->
           [kind |-> "nil", single |-> NilMethod, methods |-> <<>>, cache |-> EmptyCache]
      [] Len(filtered) = 1 ->
           [kind |-> "single", single |-> filtered[1], methods |-> <<>>, cache |-> EmptyCache]
      [] OTHER ->
           [kind |-> "multi", single |-> NilMethod, methods |-> filtered, cache |-> EmptyCache]

\* ---- multiAuthenticator.do: the pure parts ------------------------------
\* cached, ok := m.cache[proxyHost]
CacheLookupNeverHits(c, h) == [cached |-> NilMethod, ok |-> FALSE]

CacheLookup(c, h) ==
    IF h \in DOMAIN c THEN [cached |-> c[h], ok |-> TRUE]
    ELSE [cached |-> NilMethod, ok |-> FALSE]

\* m.cache[proxyHost] = method
CacheStoreCachedVar(c, ms, l) == (l.proxyHost :> l.cached) @@ c

CacheStore(c, ms, l) == (l.proxyHost :> ms[l.i]) @@ c

\* What the loop body does with (resp, err) of methods[i], i of n:
\*   "error"  return nil, err
\*   "cache"  store proxyHost -> method, return resp
\*   "return" return resp
\*   "next"   close the body, go on with methods[i+1]
LoopStepSkipsError(r, i, n, proxyHost) ==
    CASE r.err # NilErr -> IF i < n THEN "nexterr" ELSE "error"
      [] r.resp.StatusCode # StatusProxyAuthRequired ->
           IF proxyHost # NoHost THEN "cache" ELSE "return"
      [] i < n -> "next"
      [] OTHER -> "return"

LoopStepCaches407(r, i, n, proxyHost) ==
    CASE r.err # NilErr -> "error"
      [] r.resp.StatusCode # StatusProxyAuthRequired \/ i = n ->
           IF proxyHost # NoHost THEN "cache" ELSE "return"
      [] OTHER -> "next"

LoopStepStopsAtFirst407(r, i, n, proxyHost) ==
    CASE r.err # NilErr -> "error"
      [] r.resp.StatusCode # StatusProxyAuthRequired ->
           IF proxyHost # NoHost THEN "cache" ELSE "return"
      [] OTHER -> "return"

LoopStep(r, i, n, proxyHost) ==
    CASE r.err # NilErr -> "error"
      [] r.resp.StatusCode # StatusProxyAuthRequired ->
           IF proxyHost # NoHost THEN "cache" ELSE "return"
      [] i < n -> "next"
      [] OTHER -> "return"

\* The loop ran over no method: return nil, fmt.Errorf("no authentication ...")
NoMethodsReturnNothing == [resp |-> NilResp, err |-> NilErr]

NoMethodsReturn == [resp |-> NilResp, err |-> ErrNoMethods]

\* return cached.do(req, rt)
CachedReturnHidesError(r) ==
    IF r.err # NilErr THEN [resp |-> NilResp, err |-> NilErr] ELSE r

CachedReturn(r) == r

\* ---- state ----------------------------------------------------------------
Idle ==
    [pc |-> "idle", mode |-> "none", proxyHost |-> NoHost, cached |-> NilMethod,
     i |-> 0, attempts |-> <<>>, ret |-> [resp |-> NilResp, err |-> NilErr],
     entry |-> NilMethod, hadEntry |-> FALSE, priorAny |-> FALSE, priorOK |-> FALSE,
     stored |-> FALSE, cancelled |-> FALSE]

\* main once the chain is built: the locals of newNegotiateAuthenticator are
\* gone; what stays is the -k flag and whether a check ever saw a ticket.
Served(k, o) ==
    [pc |-> "serving", kerberos |-> k, observed |-> o, neg |-> FALSE,
     waitSeconds |-> 0, now |-> 0, deadline |-> 0,
     nchecks |-> 0, lastCheck |-> 0, prevCheck |-> 0]

NmOff  == [pc |-> "off"]
NegOff == [pc |-> "off"]
LogOff == [pc |-> "off"]

Init ==
    /\ config \in [neg : BOOLEAN, basicAuth : BOOLEAN, a : BOOLEAN]
    /\ boot = Served(config.neg, config.neg)
    /\ nm = NmOff
    /\ negdo = NegOff
    /\ logger = LogOff
    /\ LET made == newMultiAuthenticator(MainMethods(config)) IN
         /\ auth = [kind |-> made.kind, single |-> made.single]
         /\ methods = made.methods
         /\ cache = made.cache
    /\ mu = [readers |-> {}, writer |-> FALSE]
    /\ call = [p \in Callers |-> Idle]
    /\ ncalls = 0
    /\ finished = {}

Attempt(m, r) == [method |-> m, ret |-> r, resp |-> r.resp]

\* ---- actions --------------------------------------------------------------
\* The proxy handler calls auth.do(req, rt); do reads proxyHost from the
\* request context.  A single method is called directly, without a cache.
Call(p, h) ==
    /\ call[p].pc = "idle"
    /\ ncalls < MaxCalls
    /\ boot.pc = "serving"
    /\ auth.kind # "nil"
    /\ ncalls' = ncalls + 1
    /\ call' = [call EXCEPT ![p] =
         [Idle EXCEPT
            !.proxyHost = h,
            !.priorAny = \E o \in {"ok", "failed"} : <<h, o>> \in finished,
            !.priorOK = <<h, "ok">> \in finished,
            !.mode = IF auth.kind = "single" THEN "direct" ELSE "chain",
            !.i = IF auth.kind = "single" \/ h # NoHost THEN 0 ELSE 1,
            !.pc = IF auth.kind = "single" THEN "invoking"
                   ELSE IF h # NoHost THEN "rlock"
                   ELSE IF Len(methods) = 0 THEN "done" ELSE "invoking",
            !.ret = IF auth.kind = "multi" /\ h = NoHost /\ Len(methods) = 0
                    THEN NoMethodsReturn
                    ELSE [resp |-> NilResp, err |-> NilErr]]]
    /\ UNCHANGED <<config, auth, methods, cache, mu, finished, others>>

\* m.mu.RLock()
RLockSkipped(p) ==
    /\ call[p].pc = "rlock"
    /\ call' = [call EXCEPT ![p].pc = "read"]
    /\ UNCHANGED <<config, auth, methods, cache, mu, ncalls, finished, others>>

RLock(p) ==
    /\ call[p].pc = "rlock"
    /\ ~mu.writer
    /\ mu' = [mu EXCEPT !.readers = @ \cup {p}]
    /\ call' = [call EXCEPT ![p].pc = "read"]
    /\ UNCHANGED <<config, auth, methods, cache, ncalls, finished, others>>

\* cached, ok := m.cache[proxyHost]; m.mu.RUnlock(); if ok { cached.do } else loop
ReadUnlock(p) ==
    /\ call[p].pc = "read"
    /\ LET l == call[p]
           found == CacheLookup(cache, l.proxyHost)
           present == l.proxyHost \in DOMAIN cache IN
         call' = [call EXCEPT ![p] =
           [l EXCEPT
              !.cached = found.cached,
              !.hadEntry = present,
              !.entry = IF present THEN cache[l.proxyHost] ELSE NilMethod,
              !.mode = IF found.ok THEN "cached" ELSE "chain",
              !.i = IF found.ok THEN 0 ELSE 1,
              !.pc = IF ~found.ok /\ Len(methods) = 0 THEN "done" ELSE "invoking",
              !.ret = IF ~found.ok /\ Len(methods) = 0
                      THEN NoMethodsReturn
                      ELSE l.ret]]
    /\ mu' = [mu EXCEPT !.readers = @ \ {p}]
    /\ UNCHANGED <<config, auth, methods, cache, ncalls, finished, others>>

\* The method being invoked by caller p.
Callee(l) ==
    CASE l.mode = "direct" -> auth.single
      [] l.mode = "cached" -> l.cached
      [] OTHER -> methods[l.i]

\* What a method can return to caller l: a round trip on a cancelled request
\* context is cancelled and comes back with an error.
Returnable(l) ==
    IF l.cancelled THEN {r \in MethodResults : r.err # NilErr} ELSE MethodResults

Succeeds(r) == r.err = NilErr /\ r.resp.StatusCode # StatusProxyAuthRequired

\* method.do returns r to a caller that went through the cache or was
\* handed the single method: the result is passed on.
DelegateReturn(p, r) ==
    /\ call[p].pc = "invoking"
    /\ r \in Returnable(call[p])
    /\ call[p].mode \in {"direct", "cached"}
    /\ LET l == call[p] IN
         call' = [call EXCEPT ![p] =
           [l EXCEPT !.attempts = Append(@, Attempt(Callee(l), r)),
                     !.ret = IF l.mode = "cached" THEN CachedReturn(r) ELSE r,
                     !.pc = "done"]]
    /\ UNCHANGED <<config, auth, methods, cache, mu, ncalls, finished, others>>

\* method.do of methods[i] returns r inside the loop of do.
LoopReturn(p, r) ==
    /\ call[p].pc = "invoking"
    /\ r \in Returnable(call[p])
    /\ call[p].mode = "chain"
    /\ LET l == call[p]
           step == LoopStep(r, l.i, Len(methods), l.proxyHost)
           tried == Append(l.attempts, Attempt(Callee(l), r))
           n == Len(tried) IN
         call' = [call EXCEPT ![p] =
              CASE step = "error" ->
                     [l EXCEPT !.attempts = tried, !.pc = "done",
                               !.ret = [resp |-> NilResp, err |-> r.err]]
                [] step = "cache" ->
                     [l EXCEPT !.attempts = tried, !.pc = "lock"]
                [] step = "return" ->
                     [l EXCEPT !.attempts = tried, !.pc = "done",
                               !.ret = [resp |-> r.resp, err |-> NilErr]]
                [] step = "next" ->
                     [l EXCEPT !.attempts = [tried EXCEPT ![n].resp = BodyClose(@)],
                               !.i = l.i + 1]
                [] OTHER ->
                     [l EXCEPT !.attempts = tried, !.i = l.i + 1]]
    /\ UNCHANGED <<config, auth, methods, cache, mu, ncalls, finished, others>>

\* m.mu.Lock()
Lock(p) ==
    /\ call[p].pc = "lock"
    /\ ~mu.writer
    /\ mu.readers = {}
    /\ mu' = [mu EXCEPT !.writer = TRUE]
    /\ call' = [call EXCEPT ![p].pc = "write"]
    /\ UNCHANGED <<config, auth, methods, cache, ncalls, finished, others>>

\* m.cache[proxyHost] = method; m.mu.Unlock(); log; return resp, nil
WriteUnlock(p) ==
    /\ call[p].pc = "write"
    /\ LET l == call[p] IN
         /\ cache' = CacheStore(cache, methods, l)
         /\ call' = [call EXCEPT ![p] =
              [l EXCEPT !.pc = "done", !.stored = TRUE,
                        !.ret = [resp |-> l.attempts[Len(l.attempts)].ret.resp,
                                 err |-> NilErr]]]
    /\ mu' = [mu EXCEPT !.writer = FALSE]
    /\ UNCHANGED <<config, auth, methods, ncalls, finished, others>>

Outcome(ret) ==
    IF ret.err = NilErr /\ ret.resp.StatusCode # StatusProxyAuthRequired
    THEN "ok" ELSE "failed"

\* do has returned to the proxy handler; the goroutine is free again.
Return(p) ==
    /\ call[p].pc = "done"
    /\ finished' = IF call[p].proxyHost = NoHost THEN finished
                    ELSE finished \cup {<<call[p].proxyHost, Outcome(call[p].ret)>>}
    /\ call' = [call EXCEPT ![p] = Idle]
    /\ UNCHANGED <<config, auth, methods, cache, mu, ncalls, others>>

Next ==
    \/ \E p \in Callers, h \in Hosts : Call(p, h)
    \/ \E p \in Callers : RLock(p)
    \/ \E p \in Callers : ReadUnlock(p)
    \/ \E p \in Callers, r \in MethodResults : DelegateReturn(p, r)
    \/ \E p \in Callers, r \in MethodResults : LoopReturn(p, r)
    \/ \E p \in Callers : Lock(p)
    \/ \E p \in Callers : WriteUnlock(p)
    \/ \E p \in Callers : Return(p)

Spec == Init /\ [][Next]_vars

\* ---- cancellation ---------------------------------------------------------
\* The client of request p goes away while do is working: the request's
\* context is cancelled.  do itself never looks at the context again.
Cancel(p) ==
    /\ call[p].pc \notin {"idle", "done"}
    /\ ~call[p].cancelled
    /\ call' = [call EXCEPT ![p].cancelled = TRUE]
    /\ UNCHANGED <<config, auth, methods, cache, mu, ncalls, finished, others>>

NextCancel ==
    \/ Next
    \/ \E p \in Callers : Cancel(p)

SpecCancel == Init /\ [][NextCancel]_vars

\* ---- startup: main and newNegotiateAuthenticator ------------------------
Waits == (0 - 1)..MaxWait              \* values of *kerberosWait

\* newNegotiateAuthenticator after the immediate checkKerberosTicket():
\*   "found" return &negotiateAuthenticator{}
\*   "nil"   return nil (waitSeconds <= 0)
\*   "wait"  waitForKerberosTicket(waitSeconds)
AfterFirstCheckIgnoresTicket(found, waitSeconds) == "found"

AfterFirstCheck(found, waitSeconds) ==
    IF found THEN "found"
    ELSE IF waitSeconds <= 0 THEN "nil"
    ELSE "wait"

\* main has parsed its flags and read the credentials; it is about to build
\* the chain.  No authenticator exists yet.
InitBoot ==
    /\ \E b, n \in BOOLEAN : config = [neg |-> FALSE, basicAuth |-> b, a |-> n]
    /\ auth = [kind |-> "nil", single |-> NilMethod]
    /\ methods = <<>>
    /\ cache = EmptyCache
    /\ mu = [readers |-> {}, writer |-> FALSE]
    /\ call = [p \in Callers |-> Idle]
    /\ ncalls = 0
    /\ finished = {}
    /\ \E k \in BOOLEAN, w \in Waits :
         boot = [Served(k, FALSE) EXCEPT !.pc = "main", !.waitSeconds = w]
    /\ nm = NmOff
    /\ negdo = NegOff
    /\ logger = LogOff

\* if *kerberos { neg := newNegotiateAuthenticator(*kerberosWait) ... }
MainKerberos ==
    /\ boot.pc = "main"
    /\ boot' = [boot EXCEPT !.pc = IF boot.kerberos THEN "check" ELSE "build"]
    /\ UNCHANGED <<config, auth, methods, cache, mu, call, ncalls, finished, nm, negdo, logger>>

\* newNegotiateAuthenticator: the immediate check; ticket is what
\* checkKerberosTicket() answers.
FirstCheck(ticket) ==
    /\ boot.pc = "check"
    /\ LET step == AfterFirstCheck(ticket, boot.waitSeconds)
           seen == [boot EXCEPT !.nchecks = @ + 1, !.lastCheck = boot.now,
                                !.observed = ticket] IN
         boot' = CASE step = "found" -> [seen EXCEPT !.pc = "build", !.neg = TRUE]
                   [] step = "nil"   -> [seen EXCEPT !.pc = "build", !.neg = FALSE]
                   [] OTHER -> [seen EXCEPT !.pc = "wait",
                                            !.deadline = boot.now + boot.waitSeconds]
    /\ UNCHANGED <<config, auth, methods, cache, mu, call, ncalls, finished, nm, negdo, logger>>

\* waitForKerberosTicket: one turn of the loop
\*   for time.Now().Before(deadline) { time.Sleep(...); if check() { return true } }
\* or, past the deadline, return false.
WaitForTicket(ticket) ==
    /\ boot.pc = "wait"
    /\ boot' =
         IF boot.now < boot.deadline
         THEN LET woke == boot.now + SleepSeconds
                  seen == [boot EXCEPT !.now = woke, !.nchecks = @ + 1,
                                       !.prevCheck = boot.lastCheck, !.lastCheck = woke,
                                       !.observed = ticket] IN
                IF ticket THEN [seen EXCEPT !.pc = "build", !.neg = TRUE] ELSE seen
         ELSE [boot EXCEPT !.pc = "build", !.neg = FALSE]
    /\ UNCHANGED <<config, auth, methods, cache, mu, call, ncalls, finished, nm, negdo, logger>>

\* main: append neg, basicAuth, a; auth := newMultiAuthenticator(methods...)
BuildChain ==
    /\ boot.pc = "build"
    /\ config' = [config EXCEPT !.neg = boot.neg]
    /\ LET made == newMultiAuthenticator(MainMethods(config')) IN
         /\ auth' = [kind |-> made.kind, single |-> made.single]
         /\ methods' = made.methods
         /\ cache' = made.cache
    /\ boot' = Served(boot.kerberos, boot.observed)
    /\ UNCHANGED <<mu, call, ncalls, finished, nm, negdo, logger>>

NextBoot ==
    \/ MainKerberos
    \/ \E ticket \in BOOLEAN : FirstCheck(ticket)
    \/ \E ticket \in BOOLEAN : WaitForTicket(ticket)
    \/ BuildChain
    \/ Next

SpecBoot == InitBoot /\ [][NextBoot]_vars

\* ---- do on any multiAuthenticator value ---------------------------------
\* The multiAuthenticator values that newMultiAuthenticator never builds:
\* a methods list with no method or with one (it wraps two or more).
InitDo ==
    /\ config \in {c \in [neg : BOOLEAN, basicAuth : BOOLEAN, a : BOOLEAN] :
                     Len(MainMethods(c)) < 2}
    /\ auth = [kind |-> "multi", single |-> NilMethod]
    /\ methods = MainMethods(config)
    /\ cache = EmptyCache
    /\ mu = [readers |-> {}, writer |-> FALSE]
    /\ call = [p \in Callers |-> Idle]
    /\ ncalls = 0
    /\ finished = {}
    /\ boot = Served(config.neg, config.neg)
    /\ nm = NmOff
    /\ negdo = NegOff
    /\ logger = LogOff

SpecDo == InitDo /\ [][Next]_vars

\* ---- newMultiAuthenticator on any argument list --------------------------
\* Nothing runs but the function under study.
Quiet ==
    /\ config = [neg |-> FALSE, basicAuth |-> FALSE, a |-> FALSE]
    /\ auth = [kind |-> "nil", single |-> NilMethod]
    /\ methods = <<>>
    /\ cache = EmptyCache
    /\ mu = [readers |-> {}, writer |-> FALSE]
    /\ call = [p \in Callers |-> Idle]
    /\ ncalls = 0
    /\ finished = {}
    /\ boot = Served(FALSE, FALSE)

RECURSIVE SeqsUpTo(_, _)
SeqsUpTo(S, n) ==
    IF n = 0 THEN {<<>>}
    ELSE LET shorter == SeqsUpTo(S, n - 1) IN
           shorter \cup {Append(q, x) : q \in shorter, x \in S}

InitNew ==
    /\ Quiet
    /\ \E ms \in SeqsUpTo({NilMethod, Negotiate, Basic, NTLM}, MaxArgs) :
         nm = [pc |-> "called", args |-> ms, made |-> newMultiAuthenticator(<<>>)]
    /\ negdo = NegOff
    /\ logger = LogOff

\* newMultiAuthenticator(methods...) returns.
NewMulti ==
    /\ nm.pc = "called"
    /\ nm' = [nm EXCEPT !.pc = "returned", !.made = newMultiAuthenticator(nm.args)]
    /\ UNCHANGED <<config, auth, methods, cache, mu, call, ncalls, finished, boot, negdo, logger>>

NextNew == NewMulti

SpecNew == InitNew /\ [][NextNew]_vars

\* ---- negotiateAuthenticator.do --------------------------------------------
MaxTokenLen == 3
Bytes  == {0, 150, 255}
Tokens == SeqsUpTo(Bytes, MaxTokenLen)

\* encoding/base64: the standard alphabet and its padding character
encodeStd ==
    <<
      "A", "B", "C", "D", "E", "F", "G", "H", "I", "J", "K", "L", "M", "N", "O", "P",
      "Q", "R", "S", "T", "U", "V", "W", "X", "Y", "Z", "a", "b", "c", "d", "e", "f",
      "g", "h", "i", "j", "k", "l", "m", "n", "o", "p", "q", "r", "s", "t", "u", "v",
      "w", "x", "y", "z", "0", "1", "2", "3", "4", "5", "6", "7", "8", "9", "+", "/"
    >>

StdPadding == "="

\* base64.StdEncoding.EncodeToString: 3 bytes become 4 characters, a last
\* group of 1 or 2 bytes is padded.
RECURSIVE EncodeToString(_)
EncodeToString(b) ==
    CASE Len(b) = 0 -> <<>>
      [] Len(b) = 1 ->
           LET v == b[1] * 65536 IN
             <<encodeStd[(v \div 262144) + 1], encodeStd[((v \div 4096) % 64) + 1],
               StdPadding, StdPadding>>
      [] Len(b) = 2 ->
           LET v == b[1] * 65536 + b[2] * 256 IN
             <<encodeStd[(v \div 262144) + 1], encodeStd[((v \div 4096) % 64) + 1],
               encodeStd[((v \div 64) % 64) + 1], StdPadding>>
      [] OTHER ->
           LET v == b[1] * 65536 + b[2] * 256 + b[3] IN
             <<encodeStd[(v \div 262144) + 1], encodeStd[((v \div 4096) % 64) + 1],
               encodeStd[((v \div 64) % 64) + 1], encodeStd[(v % 64) + 1]>>
             \o EncodeToString(SubSeq(b, 4, Len(b)))

\* "Negotiate "+...
NegotiatePrefix == <<"N", "e", "g", "o", "t", "i", "a", "t", "e", " ">>
NoHeader == <<>>

\* spn := "HTTP@" + proxyHost
SPN(proxyHost) == [service |-> "HTTP", host |-> proxyHost]

\* What GSS.framework does on one call: the two major statuses, the output
\* token of gss_init_sec_context, and whether malloc gave memory.
GSSOutcomes ==
    [importName : {"complete", "failure"},
     initSecContext : {"complete", "continue_needed", "failure"},
     outputToken : Tokens,
     malloc : BOOLEAN]

\* C generateToken: the major status, *tokenData and *tokenLen
generateToken(spn, gss) ==
    CASE gss.importName # "complete" ->
           [major |-> "failure", tokenData |-> <<>>, tokenLen |-> 0, spn |-> spn]
      [] gss.initSecContext \notin {"complete", "continue_needed"} ->
           [major |-> "failure", tokenData |-> <<>>, tokenLen |-> 0, spn |-> spn]
      [] Len(gss.outputToken) > 0 /\ gss.malloc ->
           [major |-> "complete", tokenData |-> gss.outputToken,
            tokenLen |-> Len(gss.outputToken), spn |-> spn]
      [] OTHER ->
           [major |-> "complete", tokenData |-> <<>>, tokenLen |-> 0, spn |-> spn]

ErrGSSFailed  == "gss_init_sec_context failed"
ErrEmptyToken == "gss_init_sec_context returned empty token"
ErrNoProxyHost == "cannot determine proxy host for Negotiate auth"

generateSPNEGOTokenAcceptsEmpty(proxyHost, gss) ==
    LET g == generateToken(SPN(proxyHost), gss) IN
      IF g.major # "complete"
      THEN [token |-> <<>>, err |-> ErrGSSFailed, spn |-> g.spn]
      ELSE [token |-> SubSeq(g.tokenData, 1, g.tokenLen), err |-> NilErr, spn |-> g.spn]

generateSPNEGOToken(proxyHost, gss) ==
    LET g == generateToken(SPN(proxyHost), gss) IN
      CASE g.major # "complete" ->
             [token |-> <<>>, err |-> ErrGSSFailed, spn |-> g.spn]
        [] g.tokenLen = 0 ->
             [token |-> <<>>, err |-> ErrEmptyToken, spn |-> g.spn]
        [] OTHER ->
             [token |-> SubSeq(g.tokenData, 1, g.tokenLen), err |-> NilErr, spn |-> g.spn]

\* req.Context().Value(contextKeyProxy): nil, or a *url.URL with its Hostname()
NoProxy == [set |-> FALSE, hostname |-> NoHost]
ContextProxies == {NoProxy} \cup {[set |-> TRUE, hostname |-> h] : h \in Hosts}

NoGSS == [importName |-> "none", initSecContext |-> "none",
          outputToken |-> <<>>, malloc |-> FALSE]
NoToken == [token |-> <<>>, err |-> NilErr, spn |-> SPN(NoHost)]

InitNeg ==
    /\ Quiet
    /\ nm = NmOff
    /\ logger = LogOff
    /\ \E c \in ContextProxies :
         negdo = [pc |-> "called", proxy |-> c, proxyHost |-> NoHost,
                  gss |-> NoGSS, generated |-> NoToken, header |-> NoHeader,
                  roundTrips |-> 0, sent |-> NoHeader,
                  ret |-> [resp |-> NilResp, err |-> NilErr]]

\* proxyHost from the context; if proxyHost == "" return the error
NegProxyHost ==
    /\ negdo.pc = "called"
    /\ LET proxyHost == IF negdo.proxy.set THEN negdo.proxy.hostname ELSE NoHost IN
         negdo' = IF proxyHost = NoHost
                  THEN [negdo EXCEPT !.pc = "done",
                                     !.ret = [resp |-> NilResp, err |-> ErrNoProxyHost]]
                  ELSE [negdo EXCEPT !.pc = "token", !.proxyHost = proxyHost]
    /\ UNCHANGED <<config, auth, methods, cache, mu, call, ncalls, finished,
                   boot, nm, logger>>

\* token, err := generateSPNEGOToken(proxyHost); on error return it, else
\* req.Header.Set("Proxy-Authorization", "Negotiate "+base64(token))
NegToken(gss) ==
    /\ negdo.pc = "token"
    /\ LET t == generateSPNEGOToken(negdo.proxyHost, gss) IN
         negdo' = IF t.err # NilErr
                  THEN [negdo EXCEPT !.pc = "done", !.gss = gss, !.generated = t,
                                     !.ret = [resp |-> NilResp, err |-> t.err]]
                  ELSE [negdo EXCEPT !.pc = "roundtrip", !.gss = gss, !.generated = t,
                                     !.header = NegotiatePrefix \o EncodeToString(t.token)]
    /\ UNCHANGED <<config, auth, methods, cache, mu, call, ncalls, finished,
                   boot, nm, logger>>

\* return rt.RoundTrip(req)
NegRoundTrip(r) ==
    /\ negdo.pc = "roundtrip"
    /\ negdo' = [negdo EXCEPT !.pc = "done", !.roundTrips = @ + 1,
                              !.sent = negdo.header, !.ret = r]
    /\ UNCHANGED <<config, auth, methods, cache, mu, call, ncalls, finished,
                   boot, nm, logger>>

NextNeg ==
    \/ NegProxyHost
    \/ \E gss \in GSSOutcomes : NegToken(gss)
    \/ \E r \in MethodResults : NegRoundTrip(r)

SpecNeg == InitNeg /\ [][NextNeg]_vars

\* ---- the handler chain and the request logger -----------------------------
MaxWriteHeaders == 2

\* handler = Wrap(handler): the wrapper runs first and calls what it wraps
Wrap(name, handler) == <<name>> \o handler

\* createServer: mux, wrapped by the proxy handler, the logger, the proxy
\* finder and AddContextID, in that order; the result lists the outermost
\* handler first.
createServer(jsonLogs) ==
    Wrap("AddContextID",
      Wrap("ProxyFinder",
        Wrap(IF jsonLogs THEN "RequestLoggerJSON" ELSE "RequestLogger",
          Wrap("ProxyHandler", <<"mux">>))))

Loggers == {"RequestLogger", "RequestLoggerJSON"}
NoStatus == 0

InitLog ==
    /\ Quiet
    /\ nm = NmOff
    /\ negdo = NegOff
    /\ \E jsonLogs \in BOOLEAN :
         logger = [pc |-> "down", d |-> 1, handler |-> createServer(jsonLogs),
                   ctx |-> [id |-> 0, hasID |-> FALSE, proxy |-> NoHost, hasProxy |-> FALSE],
                   sw |-> [made |-> FALSE, status |-> NoStatus],
                   wire |-> NoStatus, hijacked |-> FALSE,
                   calls |-> <<>>, ran |-> <<>>, log |-> <<>>]

Running == logger.handler[logger.d]

LogUnchanged ==
    UNCHANGED <<config, auth, methods, cache, mu, call, ncalls, finished,
                boot, nm, negdo>>

\* AddContextID puts the request id into the context and calls next.
AddContextID ==
    /\ logger.pc = "down" /\ Running = "AddContextID"
    /\ logger' = [logger EXCEPT !.ctx.id = 1, !.ctx.hasID = TRUE,
                                !.ran = Append(@, "AddContextID"), !.d = @ + 1]
    /\ LogUnchanged

\* The proxy finder puts the chosen upstream (if any) into the context and
\* calls next.
ProxyFinderWrapHandler(h) ==
    /\ logger.pc = "down" /\ Running = "ProxyFinder"
    /\ logger' = [logger EXCEPT !.ctx.proxy = h, !.ctx.hasProxy = (h # NoHost),
                                !.ran = Append(@, "ProxyFinder"), !.d = @ + 1]
    /\ LogUnchanged

\* sw := &statusWriter{ResponseWriter: w, status: http.StatusOK}; next.ServeHTTP(sw, req)
RequestLoggerEnter ==
    /\ logger.pc = "down" /\ Running \in Loggers
    /\ logger' = [logger EXCEPT !.sw = [made |-> TRUE, status |-> StatusOK],
                                !.ran = Append(@, Running), !.d = @ + 1]
    /\ LogUnchanged

\* The proxy handler passes a non-proxy request on to the mux.
HandlerPass ==
    /\ logger.pc = "down" /\ Running = "ProxyHandler"
    /\ logger' = [logger EXCEPT !.d = @ + 1]
    /\ LogUnchanged

\* func (w *statusWriter) WriteHeader(status int), called by the handler that
\* is running; the wrapped ResponseWriter sends only the first status.
WriteHeaderKeepsFirst(w, status) ==
    [w EXCEPT !.status = IF w.status = StatusOK THEN status ELSE @]

WriteHeader(w, status) == [w EXCEPT !.status = status]

HandlerWriteHeader(status) ==
    /\ logger.pc = "down" /\ Running \in {"ProxyHandler", "mux"}
    /\ ~logger.hijacked
    /\ Len(logger.calls) < MaxWriteHeaders
    /\ logger' = [logger EXCEPT !.sw = WriteHeader(@, status),
                                !.wire = IF @ = NoStatus THEN status ELSE @,
                                !.calls = Append(@, status)]
    /\ LogUnchanged

\* func (w *statusWriter) Hijack(): handed to the wrapped writer (CONNECT)
Hijack ==
    /\ logger.pc = "down" /\ Running \in {"ProxyHandler", "mux"}
    /\ ~logger.hijacked
    /\ logger' = [logger EXCEPT !.hijacked = TRUE]
    /\ LogUnchanged

\* The running handler returns to the one that wrapped it.
HandlerReturn ==
    /\ logger.pc = "down" /\ Running \in {"ProxyHandler", "mux"}
    /\ logger' = [logger EXCEPT !.pc = "up", !.ran = Append(@, "returned"),
                                !.d = CHOOSE k \in 1..Len(logger.handler) :
                                        logger.handler[k] \in Loggers]
    /\ LogUnchanged

\* After next.ServeHTTP: the entry, with sw.status and the context values.
\* RequestLoggerJSON prints it when json.Marshal gave no error, which it
\* never does for jsonLogEntry; RequestLogger prints id and status only.
LogEntry ==
    /\ logger.pc = "up" /\ Running \in Loggers
    /\ LET json == Running = "RequestLoggerJSON"
           entry == [format |-> IF json THEN "json" ELSE "text",
                     id |-> IF logger.ctx.hasID THEN logger.ctx.id ELSE 0,
                     status |-> logger.sw.status,
                     parent_proxy |-> IF json /\ logger.ctx.hasProxy
                                      THEN logger.ctx.proxy ELSE NoHost,
                     after |-> logger.ran] IN
         logger' = [logger EXCEPT !.log = Append(@, entry), !.pc = "done"]
    /\ LogUnchanged

NextLog ==
    \/ AddContextID
    \/ \E h \in Hosts : ProxyFinderWrapHandler(h)
    \/ RequestLoggerEnter
    \/ HandlerPass
    \/ \E status \in Statuses \cup {502} : HandlerWriteHeader(status)
    \/ Hijack
    \/ HandlerReturn
    \/ LogEntry

SpecLog == InitLog /\ [][NextLog]_vars

\* ---- vocabulary of the properties ----------------------------------------
FixedOrder == <<Negotiate, Basic, NTLM>>

Configured ==
    (IF config.neg THEN {Negotiate} ELSE {}) \cup
    (IF config.basicAuth THEN {Basic} ELSE {}) \cup
    (IF config.a THEN {NTLM} ELSE {})

Pos(m) == CHOOSE k \in DOMAIN FixedOrder : FixedOrder[k] = m

InFixedOrder(ms) ==
    /\ Range(ms) = Configured
    /\ \A j, k \in DOMAIN ms : j < k => Pos(ms[j]) < Pos(ms[k])

Tried(l) == [k \in 1..Len(l.attempts) |-> l.attempts[k].method]

Is407(r) == r.err = NilErr /\ r.resp.StatusCode = StatusProxyAuthRequired
IsErr(r) == r.err # NilErr

\* Caller p is inside multiAuthenticator.do, past the cache lookup.
InDo(p) == call[p].mode # "direct" /\ call[p].pc \in {"invoking", "lock", "write", "done"}
Miss(p) == InDo(p) /\ ~call[p].hadEntry
Hit(p)  == InDo(p) /\ call[p].hadEntry
Done(p) == call[p].pc = "done"
Last(l) == l.attempts[Len(l.attempts)]

\* C1: on a cache miss do invokes the configured methods in the order
\* Negotiate, Basic, NTLM, each at most once, and goes on to the next method
\* only after a 407: the methods invoked so far (the one in flight included)
\* are a prefix of the chain, the chain is the configured methods in the fixed
\* order, and every attempt before the last one was answered with a 407.
C1_FixedOrder ==
    \A p \in Callers : Miss(p) =>
      LET l == call[p]
          started == IF l.pc = "invoking" THEN Len(l.attempts) + 1 ELSE Len(l.attempts) IN
        /\ InFixedOrder(methods)
        /\ started <= Len(methods)
        /\ l.pc = "invoking" => l.i = started
        /\ Tried(l) = SubSeq(methods, 1, Len(l.attempts))
        /\ \A k \in 1..(started - 1) : Is407(l.attempts[k].ret)
        /\ (Done(p) /\ l.attempts # <<>> /\ Is407(Last(l).ret)) => Len(l.attempts) = Len(methods)

C1_Witness ==
    \E p \in Callers :
      /\ Miss(p) /\ Done(p)
      /\ Tried(call[p]) = <<Negotiate, Basic, NTLM>>
      /\ Last(call[p]).ret.resp.StatusCode = StatusOK

\* C2: when the cache holds a method for the upstream host at the lookup, do
\* invokes exactly that method, once, and nothing else, hands back its
\* response or error as it is (a 407 included, body untouched) and does not
\* write the cache.
C2_CachedDelegates ==
    \A p \in Callers : Hit(p) =>
      LET l == call[p] IN
        /\ l.pc \in {"invoking", "done"}
        /\ ~l.stored
        /\ l.pc = "invoking" => l.attempts = <<>> /\ Callee(l) = l.entry
        /\ Done(p) => /\ Len(l.attempts) = 1
                      /\ l.attempts[1].method = l.entry
                      /\ l.ret = l.attempts[1].ret
                      /\ l.attempts[1].resp = l.attempts[1].ret.resp

C2_Witness ==
    \E p \in Callers :
      /\ Hit(p) /\ Done(p)
      /\ Is407(call[p].ret)
      /\ Len(methods) >= 2

\* C3: once the cache holds a method for a host, that entry is never replaced
\* by a different method and never removed, whatever the interleaving.
C3_Sticky ==
    [][\A h \in DOMAIN cache : h \in DOMAIN cache' /\ cache'[h] = cache[h]]_vars

\* C4 (as stated): whenever do returns a 407, every method of the chain was
\* attempted exactly once, in configured order, during that call.
C4_Original ==
    \A p \in Callers :
      (InDo(p) /\ Done(p) /\ Is407(call[p].ret)) => Tried(call[p]) = methods

\* C4 (amended): a 407 returned after a cache miss means the whole chain was
\* attempted once each in order; a 407 returned after a cache hit means the
\* cached method alone was attempted, once.
C4_Amended ==
    \A p \in Callers :
      (InDo(p) /\ Done(p) /\ Is407(call[p].ret)) =>
        IF call[p].hadEntry THEN Tried(call[p]) = <<call[p].entry>>
        ELSE Tried(call[p]) = methods

C4_Witness ==
    \E p \in Callers :
      /\ Miss(p) /\ Done(p) /\ Is407(call[p].ret)
      /\ Len(call[p].attempts) = 3

\* C5 (as stated): a do call for host h that follows an earlier do call for h
\* performs exactly one method invocation.
C5_Original ==
    \A p \in Callers :
      (InDo(p) /\ Done(p) /\ call[p].proxyHost # NoHost /\ call[p].priorAny)
        => Len(call[p].attempts) = 1

\* C5 (amended): a do call for host h that follows an earlier do call for h
\* which returned a non-407 response performs exactly one method invocation.
C5_Amended ==
    \A p \in Callers :
      (InDo(p) /\ Done(p) /\ call[p].proxyHost # NoHost /\ call[p].priorOK)
        => Len(call[p].attempts) = 1

C5_Witness ==
    \E p \in Callers :
      /\ InDo(p) /\ Done(p) /\ call[p].proxyHost # NoHost /\ call[p].priorOK
      /\ Len(call[p].attempts) = 1
      /\ call[p].attempts[1].method # methods[1]

\* C6: on a miss, a non-407 response from a method for a request with an
\* upstream host h makes do store h -> that method and return that response;
\* an entry for h appears or changes only in a step of a call for h whose last
\* method answered non-407, and a call that ends with an error or with a 407
\* from the last method has stored nothing.
C6_StoreOnSuccess ==
    /\ [](\A p \in Callers : (Miss(p) /\ Done(p)) =>
            LET l == call[p] IN
              IF l.attempts # <<>> /\ Succeeds(Last(l).ret) /\ l.proxyHost # NoHost
              THEN l.stored /\ l.ret = Last(l).ret /\ l.proxyHost \in DOMAIN cache
              ELSE ~l.stored)
    /\ [][\A h \in DOMAIN cache' :
            (h \notin DOMAIN cache \/ cache[h] # cache'[h]) =>
              \E p \in Callers :
                /\ call[p].pc = "write" /\ call'[p].pc = "done"
                /\ ~call[p].hadEntry
                /\ call[p].proxyHost = h
                /\ Succeeds(Last(call[p]).ret)
                /\ cache'[h] = Last(call[p]).method]_vars
    /\ [][\A p \in Callers :
            (call[p].pc = "write" /\ call'[p].pc = "done") =>
              /\ call[p].proxyHost \in DOMAIN cache'
              /\ cache'[call[p].proxyHost] = Last(call[p]).method]_vars

C6_Witness ==
    \E p \in Callers :
      /\ Miss(p) /\ Done(p) /\ call[p].stored
      /\ Len(call[p].attempts) = 2
      /\ call[p].proxyHost \in DOMAIN cache
      /\ cache[call[p].proxyHost] = Last(call[p]).method

\* C7: an error from a method ends the call at once: do returns that error
\* with no response, invokes no further method and stores nothing.
C7_ErrorPropagates ==
    \A p \in Callers : InDo(p) =>
      LET l == call[p] IN
        \A k \in DOMAIN l.attempts : IsErr(l.attempts[k].ret) =>
          /\ k = Len(l.attempts)
          /\ Done(p)
          /\ l.ret = [resp |-> NilResp, err |-> l.attempts[k].ret.err]
          /\ ~l.stored

C7_Witness ==
    \E p \in Callers :
      /\ Miss(p) /\ Done(p)
      /\ Len(call[p].attempts) = 2
      /\ IsErr(Last(call[p]).ret)
      /\ call[p].ret.err = ErrTransport

AllRejected(p) ==
    /\ Miss(p) /\ Done(p)
    /\ call[p].attempts # <<>>
    /\ \A k \in DOMAIN call[p].attempts : Is407(call[p].attempts[k].ret)

C9_CacheInChain ==
    /\ [](\A h \in DOMAIN cache : cache[h] \in Range(methods) /\ cache[h] \in Configured)
    /\ [][methods' = methods]_vars

C9_Witness ==
    /\ Cardinality(DOMAIN cache) = 2
    /\ \E h \in DOMAIN cache : cache[h] = NTLM

OnlyMethod == CHOOSE m \in Configured : TRUE

Answered(p) ==
    /\ Done(p)
    /\ call[p].proxyHost # NoHost
    /\ Outcome(call[p].ret) = "ok"

\* C10 (as stated): with a single configured method, after a request to host
\* h got a non-407 response the cache maps h to that method.
C10_Original ==
    \A p \in Callers :
      (Cardinality(Configured) = 1 /\ Answered(p)) =>
        /\ call[p].proxyHost \in DOMAIN cache
        /\ cache[call[p].proxyHost] = OnlyMethod

\* C10 (amended): with a single configured method the method itself is the
\* authenticator: a request is answered by one invocation of it, there is no
\* cache and nothing is ever stored for any host; with two or more configured
\* methods a host has a cache entry once a request to it got a non-407 response.
C10_Amended ==
    /\ Cardinality(Configured) = 1 =>
         /\ cache = EmptyCache
         /\ \A p \in Callers : Done(p) =>
              /\ Tried(call[p]) = <<OnlyMethod>>
              /\ call[p].ret = call[p].attempts[1].ret
              /\ ~call[p].stored
    /\ Cardinality(Configured) >= 2 =>
         \A p \in Callers : Answered(p) => call[p].proxyHost \in DOMAIN cache

C10_Witness ==
    \E p \in Callers :
      /\ Cardinality(Configured) = 1
      /\ config.a
      /\ Answered(p)
      /\ call[p].attempts[1].method = NTLM

\* The authenticators main handed to the proxy handler, in order.
Chain ==
    CASE auth.kind = "multi" -> methods
      [] auth.kind = "single" -> <<auth.single>>
      [] OTHER -> <<>>

\* C13: Negotiate is in the chain exactly when -k is set and a check of
\* newNegotiateAuthenticator saw a ticket (the immediate one, or a poll, and
\* polls happen only with waitSeconds > 0; with waitSeconds <= 0 exactly one
\* check is made); once main serves, the chain never changes, so a Negotiate
\* that is absent stays absent.
C13_NegotiateIffTicket ==
    /\ [](boot.pc = "build" =>
            /\ boot.neg <=> (boot.kerberos /\ boot.observed)
            /\ boot.kerberos => boot.nchecks >= 1
            /\ ~boot.kerberos => (boot.nchecks = 0 /\ ~boot.observed)
            /\ (boot.kerberos /\ boot.waitSeconds <= 0) => boot.nchecks = 1
            /\ boot.nchecks >= 2 => boot.waitSeconds > 0)
    /\ [](boot.pc = "serving" =>
            (Negotiate \in Range(Chain) <=> (boot.kerberos /\ boot.observed)))
    /\ [](boot.pc # "serving" => Chain = <<>>)
    /\ [][boot.pc = "serving" => (Chain' = Chain /\ boot' = boot)]_vars

C13_Witness ==
    /\ boot.pc = "build"
    /\ boot.neg
    /\ boot.waitSeconds > 0
    /\ boot.nchecks = 3

\* C14: after a failed immediate check with waitSeconds > 0, the polls are one
\* second apart, and no poll and no "no ticket" report happens later than
\* waitSeconds seconds after the start.
C14_PollEverySecond ==
    (boot.pc \in {"wait", "build"} /\ boot.nchecks >= 2) =>
       /\ boot.lastCheck - boot.prevCheck = 1
       /\ boot.lastCheck <= boot.waitSeconds
       /\ boot.now <= boot.waitSeconds

\* The non-nil arguments of the call, in the order given.
Kept == SelectSeq(nm.args, LAMBDA m : m # NilMethod)

\* C11: newMultiAuthenticator drops the nil arguments; with none left it
\* returns nil, with one left it returns that method itself (no wrapper, no
\* cache), otherwise a multiAuthenticator holding the remaining methods in the
\* order given, with an empty cache.
C11_NewMulti ==
    nm.pc = "returned" =>
      CASE Len(Kept) = 0 -> nm.made.kind = "nil"
        [] Len(Kept) = 1 -> /\ nm.made.kind = "single"
                            /\ nm.made.single = Kept[1]
                            /\ nm.made.methods = <<>>
        [] OTHER -> /\ nm.made.kind = "multi"
                    /\ nm.made.methods = Kept
                    /\ DOMAIN nm.made.cache = {}

C11_Witness ==
    /\ nm.pc = "returned"
    /\ nm.args = <<NTLM, NilMethod, Basic>>
    /\ nm.made.kind = "multi"
    /\ nm.made.methods = <<NTLM, Basic>>

FullyReceived(resp) == resp.Body.read

C15_NoWriteAfterCancel ==
    [][\A p \in Callers :
         (/\ call[p].cancelled
          /\ call[p].pc = "write"
          /\ ~FullyReceived(Last(call[p]).resp))
         => ~(call'[p].stored /\ cache' # cache)]_vars

\* The byte string a base64 text stands for (the reading a proxy makes of it).
Sextet(c) == IF c = StdPadding THEN 0 ELSE CHOOSE k \in 0..63 : encodeStd[k + 1] = c

RECURSIVE DecodeString(_)
DecodeString(s) ==
    IF Len(s) < 4 THEN <<>>
    ELSE LET v == Sextet(s[1]) * 262144 + Sextet(s[2]) * 4096
                    + Sextet(s[3]) * 64 + Sextet(s[4])
             all == <<v \div 65536, (v \div 256) % 256, v % 256>>
             pads == Cardinality({k \in 3..4 : s[k] = StdPadding}) IN
           SubSeq(all, 1, 3 - pads) \o DecodeString(SubSeq(s, 5, Len(s)))

Credentials(header) == SubSeq(header, Len(NegotiatePrefix) + 1, Len(header))

TokenObtained ==
    /\ negdo.gss.importName = "complete"
    /\ negdo.gss.initSecContext \in {"complete", "continue_needed"}
    /\ negdo.gss.malloc
    /\ negdo.gss.outputToken # <<>>

\* C16: negotiateAuthenticator.do makes at most one round trip; it makes none
\* and returns an error when the context has no proxy or an empty hostname,
\* or when token generation for HTTP@<hostname> fails or gives an empty
\* token; only with a token does it set Proxy-Authorization to
\* "Negotiate <base64(token)>" and round-trip the request.
C16_NegotiateDo ==
    /\ negdo.pc # "off"
    /\ negdo.roundTrips <= 1
    /\ (negdo.pc = "done" /\ (~negdo.proxy.set \/ negdo.proxy.hostname = NoHost)) =>
         /\ negdo.roundTrips = 0
         /\ negdo.ret.err # NilErr
         /\ negdo.ret.resp = NilResp
         /\ negdo.header = NoHeader
         /\ negdo.gss = NoGSS
    /\ (negdo.pc \in {"roundtrip", "done"} /\ negdo.gss # NoGSS /\ ~TokenObtained) =>
         /\ negdo.pc = "done"
         /\ negdo.roundTrips = 0
         /\ negdo.ret.err # NilErr
         /\ negdo.ret.resp = NilResp
         /\ negdo.header = NoHeader
    /\ (negdo.header # NoHeader \/ negdo.roundTrips > 0) =>
         /\ TokenObtained
         /\ negdo.generated.spn = [service |-> "HTTP", host |-> negdo.proxy.hostname]
         /\ SubSeq(negdo.header, 1, Len(NegotiatePrefix)) = NegotiatePrefix
         /\ DecodeString(Credentials(negdo.header)) = negdo.gss.outputToken
         /\ Len(Credentials(negdo.header)) = 4 * ((Len(negdo.gss.outputToken) + 2) \div 3)
    /\ (negdo.pc = "done" /\ TokenObtained) =>
         /\ negdo.roundTrips = 1
         /\ negdo.sent = negdo.header

C16_Witness ==
    /\ negdo.pc = "done"
    /\ negdo.roundTrips = 1
    /\ Len(negdo.gss.outputToken) = 2
    /\ negdo.gss.initSecContext = "continue_needed"
    /\ negdo.ret.err = NilErr

\* Who holds m.mu, as the program counters tell it.
ReadHolders  == {p \in Callers : call[p].pc = "read"}
WriteHolders == {p \in Callers : call[p].pc = "write"}

LockDiscipline ==
    /\ mu.readers = ReadHolders
    /\ mu.writer <=> WriteHolders # {}
    /\ Cardinality(WriteHolders) <= 1
    /\ WriteHolders # {} => ReadHolders = {}
    /\ \A p \in Callers :
         call[p].pc = "invoking" => p \notin mu.readers /\ p \notin WriteHolders

\* A held lock can always be released by its holder, and a caller waiting
\* for the lock waits for a holder, never for a method invocation.
NoLockedDeadlock ==
    /\ \A p \in ReadHolders : ENABLED ReadUnlock(p)
    /\ \A p \in WriteHolders : ENABLED WriteUnlock(p)
    /\ \A p \in Callers :
         (call[p].pc = "rlock" /\ ~ENABLED RLock(p)) => WriteHolders # {}
    /\ \A p \in Callers :
         (call[p].pc = "lock" /\ ~ENABLED Lock(p)) =>
            (ReadHolders \cup WriteHolders) \ {p} # {}

\* The cache is looked up only by a read holder and changed only by the
\* write holder.
CacheAccessLocked ==
    \A p \in Callers :
      /\ (call[p].pc \notin {"idle", "done"}
            /\ <<call'[p].cached, call'[p].entry, call'[p].hadEntry>>
                 # <<call[p].cached, call[p].entry, call[p].hadEntry>>)
           => p \in mu.readers /\ ~mu.writer
      /\ (call'[p].stored /\ ~call[p].stored)
           => mu.writer /\ mu.readers = {} /\ p \in WriteHolders
      /\ cache' # cache => mu.writer /\ mu.readers = {}

\* C17: every read and write of the cache happens under the reader-writer
\* lock (reads under the read lock, writes under the write lock), the lock is
\* never held while a method is invoked, a round trip in flight for one
\* request never blocks another request's cache access, and no state with a
\* held lock is a deadlock.
C17_CacheUnderLock ==
    /\ [](LockDiscipline /\ NoLockedDeadlock)
    /\ [][CacheAccessLocked]_vars

C17_Witness ==
    \E p, q \in Callers :
      /\ p # q
      /\ call[p].pc = "invoking" /\ call[p].proxyHost = "up1"
      /\ call[q].pc = "write" /\ call[q].proxyHost = "up1"
      /\ mu.writer

\* C18: a request served through RequestLogger or RequestLoggerJSON gives
\* exactly one log entry, written after the wrapped handler returned and
\* after AddContextID and the proxy finder ran; its status is that of the
\* last WriteHeader call of the wrapped handler, or 200 if there was none.
C18_OneLogEntry ==
    /\ logger.pc # "off"
    /\ Len(logger.log) <= 1
    /\ logger.pc = "done" <=> Len(logger.log) = 1
    /\ \A k \in 1..Len(logger.log) :
         LET e == logger.log[k] IN
           /\ {"AddContextID", "ProxyFinder", "returned"} \subseteq Range(e.after)
           /\ e.after[Len(e.after)] = "returned"
           /\ e.id = logger.ctx.id /\ logger.ctx.hasID
           /\ e.status = IF logger.calls = <<>> THEN 200
                         ELSE logger.calls[Len(logger.calls)]

C18_Witness ==
    /\ logger.pc = "done"
    /\ Len(logger.calls) = 2
    /\ logger.calls[1] # logger.calls[2]
    /\ logger.log[1].status = logger.calls[2]
    /\ logger.log[1].status # logger.wire
====
